---- MODULE Spec2Model ----
(***************************************************************************)
(* Model of megatron/core/models/T5/t5_model.py: the stage wiring of       *)
(* T5Model (which sub-modules a pipeline stage constructs and which ones    *)
(* forward and set_input_tensor invoke), the input-tensor validation of    *)
(* set_input_tensor, and the weight handed to the LM head.                 *)
(*                                                                         *)
(* Tensors are opaque: a tensor is an identifier in 1..NumTensors, None is *)
(* 0, and the value produced by the encoder block is EncoderOutput.        *)
(***************************************************************************)
EXTENDS Integers, Sequences, FiniteSets, TLC

\* ---------------------------------------------------------------- bounds
MaxLen == 3
NumTensors == 2

\* ---------------------------------------------------------------- values
None == 0
Tensors == 1..NumTensors
TensorOrNone == Tensors \cup {None}
EncoderOutput == NumTensors + 1

PositionEmbeddingTypes == {"learned_absolute", "rope", "relative"}

\* Weights are named by the attribute path that holds them.
NoWeight == "None"
EmbeddingWeight == "embedding.word_embeddings.weight"
OutputLayerWeight == "lm_head.output_layer.weight"

\* Sequences over S of length 0..n.
RECURSIVE SeqsUpTo(_, _)
SeqsUpTo(S, n) ==
    IF n = 0 THEN {<<>>}
    ELSE LET shorter == SeqsUpTo(S, n - 1)
         IN  shorter \cup {Append(s, x) : s \in {t \in shorter : Len(t) = n - 1}, x \in S}

\* The arguments set_input_tensor is given: a list of tensors/None, or a
\* bare tensor/None that is not a list.
InputTensors ==
    {[is_list |-> TRUE, value |-> None, items |-> s] : s \in SeqsUpTo(TensorOrNone, MaxLen)}
    \cup {[is_list |-> FALSE, value |-> v, items |-> <<>>] : v \in TensorOrNone}

\* What is remembered of an argument: whether it was a list, and its length.
InputShape(input_tensor) ==
    [is_list |-> input_tensor.is_list, length |-> Len(input_tensor.items)]

NoInput == [is_list |-> FALSE, length |-> 0]

\* Outcomes of a call.
NoException == [type |-> "none", msg |-> ""]
LengthErrorBoth ==
    [type |-> "AssertionError",
     msg |-> "input_tensor should only be length 1 for stage with both encoder and decoder"]
LengthErrorEncoder ==
    [type |-> "AssertionError",
     msg |-> "input_tensor should only be length 1 for stage with only encoder"]
ExcLength ==
    [type |-> "Exception", msg |-> "input_tensor must have either length 1 or 2"]
ExcStage ==
    [type |-> "Exception", msg |-> "Stage must have at least either encoder or decoder"]

Call(obj, method) == [obj |-> obj, method |-> method]

VARIABLES
    pre_process, post_process, add_encoder, add_decoder,
    share_embeddings_and_output_weights, position_embedding_type,
    components,             \* sub-modules constructed by __init__
    output_layer_weight,    \* lm_head.output_layer.weight (NoWeight if not allocated)
    encoder_hidden_state,   \* self.encoder_hidden_state
    encoder_input_tensor,   \* self.encoder.input_tensor
    decoder_input_tensor,   \* self.decoder.input_tensor
    last_op,                \* "init", "set_input_tensor" or "forward"
    last_input,             \* shape of the argument of the last set_input_tensor
    raised,                 \* exception raised by the last call
    calls,                  \* sub-module invocations made by the last call
    returned,               \* what the last forward returned
    head_weight_arg         \* word_embeddings_weight of the last lm_head call

config_vars == <<pre_process, post_process, add_encoder, add_decoder,
                 share_embeddings_and_output_weights, position_embedding_type,
                 components, output_layer_weight>>
tensor_vars == <<encoder_hidden_state, encoder_input_tensor, decoder_input_tensor>>
vars == <<config_vars, tensor_vars, last_op, last_input, raised, calls, returned,
          head_weight_arg>>

\* ------------------------------------------------------------ construction

\* Variant: allocation skipped whenever the weights are shared, whether or not
\* the stage holds the embedding.
SkipWeightParamAllocation_ShareOnly(pre, share) == share

\* T5LMHead.__init__: ColumnParallelLinear is told to skip allocating its
\* weight; a linear layer that skips allocation has weight None.
SkipWeightParamAllocation(pre, share) == pre /\ share

T5LMHeadWeight(pre, share) ==
    IF SkipWeightParamAllocation(pre, share) THEN NoWeight ELSE OutputLayerWeight

\* T5Model.__init__: the sub-modules a stage constructs.
Constructed(pre, post, enc, dec, pet) ==
    (IF pre THEN {"embedding"} ELSE {})
    \cup (IF pet = "rope" THEN {"rotary_pos_emb"} ELSE {})
    \cup (IF pet = "relative"
          THEN {"encoder_relative_pos_emb", "decoder_relative_pos_emb"} ELSE {})
    \cup (IF enc THEN {"encoder"} ELSE {})
    \cup (IF dec THEN {"decoder"} ELSE {})
    \cup (IF post THEN {"lm_head"} ELSE {})

Init ==
    /\ pre_process \in BOOLEAN
    /\ post_process \in BOOLEAN
    /\ add_encoder \in BOOLEAN
    /\ add_decoder \in BOOLEAN
    /\ share_embeddings_and_output_weights \in BOOLEAN
    /\ position_embedding_type \in PositionEmbeddingTypes
    /\ components = Constructed(pre_process, post_process, add_encoder, add_decoder,
                                position_embedding_type)
    /\ output_layer_weight =
         IF post_process
         THEN T5LMHeadWeight(pre_process, share_embeddings_and_output_weights)
         ELSE NoWeight
    /\ encoder_hidden_state = None
    /\ encoder_input_tensor = None
    /\ decoder_input_tensor = None
    /\ last_op = "init"
    /\ last_input = NoInput
    /\ raised = NoException
    /\ calls = <<>>
    /\ returned = [kind |-> "none", encoder_hidden_states |-> None]
    /\ head_weight_arg = NoWeight

\* -------------------------------------------------------- set_input_tensor

\* "if not isinstance(input_tensor, list): input_tensor = [input_tensor]"
WrapInput(input_tensor) ==
    IF input_tensor.is_list THEN input_tensor.items ELSE <<input_tensor.value>>

\* The state a call leaves behind and the exception it ends with.
Outcome(exc, eit, dit, ehs, cs) ==
    [raised |-> exc, encoder_input_tensor |-> eit, decoder_input_tensor |-> dit,
     encoder_hidden_state |-> ehs, calls |-> cs]

Unchanged(exc) ==
    Outcome(exc, encoder_input_tensor, decoder_input_tensor, encoder_hidden_state, <<>>)

\* Stage with both encoder and decoder.
SetInputBoth(input_tensor) ==
    IF Len(input_tensor) # 1 THEN Unchanged(LengthErrorBoth)
    ELSE Outcome(NoException, input_tensor[1], decoder_input_tensor,
                 encoder_hidden_state, <<Call("encoder", "set_input_tensor")>>)

\* Stage with only the encoder.
SetInputEncoder(input_tensor) ==
    IF Len(input_tensor) # 1 THEN Unchanged(LengthErrorEncoder)
    ELSE Outcome(NoException, input_tensor[1], decoder_input_tensor,
                 encoder_hidden_state, <<Call("encoder", "set_input_tensor")>>)

\* Variant: a one-element list is rejected on a decoder-only stage.
SetInputDecoder_PairOnly(input_tensor) ==
    IF Len(input_tensor) = 2
    THEN Outcome(NoException, encoder_input_tensor, input_tensor[1], input_tensor[2],
                 <<Call("decoder", "set_input_tensor")>>)
    ELSE Unchanged(ExcLength)

\* Variant: the first two elements are stored before the length is rejected.
SetInputDecoder_StoreFirst(input_tensor) ==
    IF Len(input_tensor) = 1
    THEN Outcome(NoException, encoder_input_tensor, None, input_tensor[1],
                 <<Call("decoder", "set_input_tensor")>>)
    ELSE IF Len(input_tensor) >= 2
    THEN Outcome(IF Len(input_tensor) = 2 THEN NoException ELSE ExcLength,
                 encoder_input_tensor, input_tensor[1], input_tensor[2],
                 <<Call("decoder", "set_input_tensor")>>)
    ELSE Unchanged(ExcLength)

\* Stage with only the decoder.
SetInputDecoder(input_tensor) ==
    IF Len(input_tensor) = 2
    THEN Outcome(NoException, encoder_input_tensor, input_tensor[1], input_tensor[2],
                 <<Call("decoder", "set_input_tensor")>>)
    ELSE IF Len(input_tensor) = 1
    THEN Outcome(NoException, encoder_input_tensor, None, input_tensor[1],
                 <<Call("decoder", "set_input_tensor")>>)
    ELSE Unchanged(ExcLength)

\* T5Model.set_input_tensor after the wrapping.
SetInputDispatch(input_tensor) ==
    IF add_encoder /\ add_decoder THEN SetInputBoth(input_tensor)
    ELSE IF add_encoder THEN SetInputEncoder(input_tensor)
    ELSE IF add_decoder THEN SetInputDecoder(input_tensor)
    ELSE Unchanged(ExcStage)

set_input_tensor(input_tensor) ==
    LET out == SetInputDispatch(WrapInput(input_tensor))
    IN  /\ encoder_input_tensor' = out.encoder_input_tensor
        /\ decoder_input_tensor' = out.decoder_input_tensor
        /\ encoder_hidden_state' = out.encoder_hidden_state
        /\ raised' = out.raised
        /\ calls' = out.calls
        /\ last_op' = "set_input_tensor"
        /\ last_input' = InputShape(input_tensor)
        /\ UNCHANGED <<config_vars, returned, head_weight_arg>>

\* ----------------------------------------------------------------- forward

\* "if self.pre_process: ... = self.embedding(...)" (encoder and decoder side).
EmbeddingCalls ==
    IF pre_process THEN <<Call("embedding", "forward")>> ELSE <<>>

\* Rotary and relative positional embeddings of one side ("encoder"/"decoder").
PositionEmbeddingCalls(side) ==
    (IF position_embedding_type = "rope"
     THEN <<Call("rotary_pos_emb", "get_rotary_seq_len"), Call("rotary_pos_emb", "forward")>>
     ELSE <<>>)
    \o (IF position_embedding_type = "relative"
        THEN <<Call(IF side = "encoder" THEN "encoder_relative_pos_emb"
                    ELSE "decoder_relative_pos_emb", "forward")>>
        ELSE <<>>)

\* Variant: the encoder block is run on every stage.
RunEncoder_Unguarded ==
    [calls |-> <<Call("encoder", "forward")>>, encoder_hidden_states |-> EncoderOutput]

\* "Run encoder.": the block when the stage has one, else the stored state.
RunEncoder ==
    IF add_encoder
    THEN [calls |-> <<Call("encoder", "forward")>>, encoder_hidden_states |-> EncoderOutput]
    ELSE [calls |-> <<>>, encoder_hidden_states |-> encoder_hidden_state]

\* "## Encoder forward": skipped when encoder_hidden_states is supplied.
EncoderForward(encoder_hidden_states) ==
    IF encoder_hidden_states = None
    THEN [calls |-> EmbeddingCalls \o PositionEmbeddingCalls("encoder") \o RunEncoder.calls,
          encoder_hidden_states |-> RunEncoder.encoder_hidden_states]
    ELSE [calls |-> <<>>, encoder_hidden_states |-> encoder_hidden_states]

\* T5Model.shared_embedding_or_output_weight
shared_embedding_or_output_weight ==
    IF pre_process THEN EmbeddingWeight
    ELSE IF post_process THEN output_layer_weight
    ELSE NoWeight

\* The word_embeddings_weight forward hands to the LM head.
OutputWeight ==
    IF share_embeddings_and_output_weights THEN shared_embedding_or_output_weight
    ELSE NoWeight

\* "if self.post_process: ... self.lm_head(...)"
HeadCalls ==
    IF post_process THEN <<Call("lm_head", "forward")>> ELSE <<>>

\* "## Decoder forward" up to the return.
DecoderForward(lm_labels_given) ==
    [calls |-> EmbeddingCalls \o PositionEmbeddingCalls("decoder")
               \o <<Call("decoder", "forward")>> \o HeadCalls,
     kind |-> IF post_process
              THEN (IF lm_labels_given THEN "lm_loss" ELSE "lm_logits")
              ELSE "decoder_hidden_states"]

forward(encoder_hidden_states, output_encoder_hidden_only, lm_labels_given) ==
    LET enc == EncoderForward(encoder_hidden_states)
        dec == DecoderForward(lm_labels_given)
        stop == ~add_decoder \/ output_encoder_hidden_only
    IN  /\ calls' = IF stop THEN enc.calls ELSE enc.calls \o dec.calls
        /\ returned' = [kind |-> IF stop THEN "encoder_hidden_states" ELSE dec.kind,
                        encoder_hidden_states |-> enc.encoder_hidden_states]
        /\ head_weight_arg' = IF ~stop /\ post_process THEN OutputWeight
                              ELSE head_weight_arg
        /\ raised' = NoException
        /\ last_op' = "forward"
        /\ last_input' = NoInput
        /\ UNCHANGED <<config_vars, tensor_vars>>

\* ------------------------------------------------------------ specification

CallSetInputTensor == \E input_tensor \in InputTensors : set_input_tensor(input_tensor)

CallForward ==
    \E encoder_hidden_states \in TensorOrNone, output_encoder_hidden_only \in BOOLEAN,
       lm_labels_given \in BOOLEAN :
        forward(encoder_hidden_states, output_encoder_hidden_only, lm_labels_given)

Next == CallSetInputTensor \/ CallForward

Spec == Init /\ [][Next]_vars

\* ------------------------------------------------------------------ claims

Failed == raised # NoException

\* Length of the list set_input_tensor validates: a non-list counts as one element.
WrappedLength == IF last_input.is_list THEN last_input.length ELSE 1

Invoked(obj) == \E i \in 1..Len(calls) : calls[i].obj = obj

\* C1: set_input_tensor succeeds exactly when, after wrapping a non-list
\* argument into a one-element list, the stage has an encoder and the list has
\* length 1, or the stage has only a decoder and the list has length 1 or 2.
\* Otherwise it fails: an assertion failure on a stage with an encoder, the
\* exception 'input_tensor must have either length 1 or 2' on a decoder-only
\* stage, the exception 'Stage must have at least either encoder or decoder'
\* on a stage with neither, whatever the input.
C1_SetInputTensorOutcome ==
    last_op = "set_input_tensor" =>
        /\ ~Failed <=> \/ add_encoder /\ WrappedLength = 1
                       \/ ~add_encoder /\ add_decoder /\ WrappedLength \in {1, 2}
        /\ (add_encoder /\ WrappedLength # 1) => raised.type = "AssertionError"
        /\ (~add_encoder /\ add_decoder /\ (WrappedLength = 0 \/ WrappedLength >= 3))
               => raised = ExcLength
        /\ (~add_encoder /\ ~add_decoder) => raised = ExcStage

\* A bare (non-list) argument accepted by a decoder-only stage.
C1_Witness ==
    /\ last_op = "set_input_tensor"
    /\ ~add_encoder /\ add_decoder
    /\ ~last_input.is_list
    /\ ~Failed
    /\ encoder_hidden_state # None

\* C2: each sub-module is constructed exactly on the stages its flag selects,
\* and no call (forward or set_input_tensor) reaches the encoder without
\* add_encoder, the decoder without add_decoder, the embedding without
\* pre_process, or the LM head without post_process.
C2_OnlyConstructedInvoked ==
    /\ ("encoder" \in components) <=> add_encoder
    /\ ("decoder" \in components) <=> add_decoder
    /\ ("embedding" \in components) <=> pre_process
    /\ ("lm_head" \in components) <=> post_process
    /\ Invoked("encoder") => add_encoder
    /\ Invoked("decoder") => add_decoder
    /\ Invoked("embedding") => pre_process
    /\ Invoked("lm_head") => post_process
    /\ \A i \in 1..Len(calls) : calls[i].obj \in components

\* A forward on a decoder-only stage in the middle of the pipeline that reads
\* the stored encoder state instead of running an encoder.
C2_Witness ==
    /\ last_op = "forward"
    /\ ~add_encoder /\ add_decoder /\ ~pre_process /\ ~post_process
    /\ Invoked("decoder")
    /\ returned.kind = "decoder_hidden_states"
    /\ returned.encoder_hidden_states = encoder_hidden_state
    /\ encoder_hidden_state # None

\* C3: the LM head has no weight of its own exactly when pre_process and
\* share_embeddings_and_output_weights both hold.  When forward calls the head
\* with sharing on, it passes the embedding's word-embedding weight on a
\* pre_process stage and the head's own output-layer weight otherwise; with
\* sharing off it passes None and the head has its own weight.  The head is
\* never called with neither an allocated nor a supplied weight.
C3_HeadWeight ==
    /\ post_process =>
          ((output_layer_weight = NoWeight)
              <=> (pre_process /\ share_embeddings_and_output_weights))
    /\ (last_op = "forward" /\ Invoked("lm_head")) =>
          /\ share_embeddings_and_output_weights =>
                head_weight_arg = IF pre_process THEN EmbeddingWeight
                                  ELSE OutputLayerWeight
          /\ ~share_embeddings_and_output_weights =>
                head_weight_arg = NoWeight /\ output_layer_weight = OutputLayerWeight
          /\ ~(head_weight_arg = NoWeight /\ output_layer_weight = NoWeight)

\* The head of a last stage without embedding is handed its own weight.
C3_Witness ==
    /\ last_op = "forward"
    /\ Invoked("lm_head")
    /\ share_embeddings_and_output_weights /\ ~pre_process
    /\ head_weight_arg = OutputLayerWeight

\* C5: a set_input_tensor call that fails leaves encoder_hidden_state and the
\* input tensors of the encoder and decoder blocks as they were.
C5_FailedCallKeepsState ==
    [][(last_op' = "set_input_tensor" /\ raised' # NoException)
          => UNCHANGED tensor_vars]_vars

\* A rejected call on a decoder-only stage after an accepted one stored tensors.
C5_Witness ==
    /\ last_op = "set_input_tensor"
    /\ raised = ExcLength
    /\ decoder_input_tensor # None
    /\ encoder_hidden_state # None

====
